---- MODULE Spec2Model ----
(***************************************************************************)
(* A model of the adif crate: the ADIF value encoder (src/src/data.rs) and *)
(* the ADIF parser (src/src/parser.rs).                                    *)
(*                                                                         *)
(* Text is a sequence of characters; a character is a one-character string *)
(* ("A", "<", "\n"), and the two characters outside ASCII that the model   *)
(* uses are written by their code point ("U+00E9", "U+0663").              *)
(***************************************************************************)
EXTENDS Integers, Sequences, FiniteSets, TLC

VARIABLES
    doc,      \* the text buffer handed to parse_adif
    fed,      \* how many pieces of text the caller has written to doc
    file,     \* what parse_adif returned: NotRun, a panic, or an AdifFile
    lexed,     \* what parse_line_to_tokens returned when called on doc alone
    key,      \* the key_name handed to AdifType::serialize
    value,    \* the AdifType handed to AdifType::serialize
    rec,      \* the IndexMap inside the AdifRecord / AdifHeader the caller holds
    out,      \* what the last serialize call returned: NotRun, Ok or Err
    now,      \* seconds the system clock (chrono::Utc::now) is past ClockBase
    hser      \* the header serializations made so far (at most the last two)

vars == <<doc, fed, file, lexed, key, value, rec, out, now, hser>>

----------------------------------------------------------------------------
(* Characters *)

LowerLetters == <<"a","b","c","d","e","f","g","h","i","j","k","l","m",
                  "n","o","p","q","r","s","t","u","v","w","x","y","z">>
UpperLetters == <<"A","B","C","D","E","F","G","H","I","J","K","L","M",
                  "N","O","P","Q","R","S","T","U","V","W","X","Y","Z">>
DigitChars == <<"0","1","2","3","4","5","6","7","8","9">>

Range(f) == {f[i] : i \in DOMAIN f}

\* U+00E9 is e-acute (two bytes in UTF-8); U+0663 is ARABIC-INDIC DIGIT THREE
\* (a decimal digit for the regex class \d, two bytes in UTF-8).
NonAsciiChars == {"U+00E9", "U+0663"}

\* char::is_whitespace, on the characters of the model
WhiteSpace == {" ", "\t", "\n", "\r"}

AsciiDigits == Range(DigitChars)
Letters == Range(LowerLetters) \cup Range(UpperLetters)

\* the regex classes of TOKEN_RE
KeyClass == Letters \cup {"_"}
DigitClass == AsciiDigits \cup {"U+0663"}

DigitVal(c) == CHOOSE i \in 0..9 : DigitChars[i + 1] = c

\* char::to_ascii_uppercase / str::to_uppercase, one character
UpperChar(c) ==
    IF \E i \in 1..26 : LowerLetters[i] = c
    THEN UpperLetters[CHOOSE i \in 1..26 : LowerLetters[i] = c]
    ELSE c

\* str::to_uppercase
to_uppercase(s) == [i \in 1..Len(s) |-> UpperChar(s[i])]

\* str::is_ascii
is_ascii(s) == \A i \in 1..Len(s) : s[i] \notin NonAsciiChars

\* str::len: the length in bytes
ByteLen(s) ==
    Len(s) + Cardinality({i \in 1..Len(s) : s[i] \in NonAsciiChars})

SetMin(S) == CHOOSE x \in S : \A y \in S : x <= y

----------------------------------------------------------------------------
(* Text operations of the standard library *)

\* s[i..j], empty when j < i
Slice(s, i, j) == IF j < i THEN <<>> ELSE SubSeq(s, i, j)

StartsAt(s, i, pat) ==
    /\ i + Len(pat) - 1 <= Len(s)
    /\ \A k \in 1..Len(pat) : s[i + k - 1] = pat[k]

\* the start of the first occurrence of pat at or after i, 0 when there is none
FindFrom(s, i, pat) ==
    LET hits == {k \in i..Len(s) : StartsAt(s, k, pat)}
    IN  IF hits = {} THEN 0 ELSE SetMin(hits)

\* str::replace: every non-overlapping occurrence, left to right
RECURSIVE ReplaceFrom(_, _, _, _)
ReplaceFrom(s, i, from, to) ==
    LET k == FindFrom(s, i, from)
    IN  IF k = 0
        THEN Slice(s, i, Len(s))
        ELSE Slice(s, i, k - 1) \o to \o ReplaceFrom(s, k + Len(from), from, to)

replace(s, from, to) == ReplaceFrom(s, 1, from, to)

\* str::split: the segments between the occurrences of sep (never empty:
\* a text without sep is its own single segment)
RECURSIVE SplitFrom(_, _, _)
SplitFrom(s, i, sep) ==
    LET k == FindFrom(s, i, sep)
    IN  IF k = 0
        THEN <<Slice(s, i, Len(s))>>
        ELSE <<Slice(s, i, k - 1)>> \o SplitFrom(s, k + Len(sep), sep)

split(s, sep) == SplitFrom(s, 1, sep)

\* str::trim_end
RECURSIVE trim_end(_)
trim_end(s) ==
    IF s # <<>> /\ s[Len(s)] \in WhiteSpace
    THEN trim_end(Slice(s, 1, Len(s) - 1))
    ELSE s

\* str::trim_start, as chrono applies it before a numeric item
RECURSIVE trim_start(_)
trim_start(s) ==
    IF s # <<>> /\ s[1] \in WhiteSpace
    THEN trim_start(Slice(s, 2, Len(s)))
    ELSE s

RECURSIVE DecValue(_)
DecValue(ds) ==
    IF ds = <<>> THEN 0
    ELSE 10 * DecValue(Slice(ds, 1, Len(ds) - 1)) + DigitVal(ds[Len(ds)])

\* the decimal text of a natural number (Display for integers)
RECURSIVE DecText(_)
DecText(n) ==
    IF n < 10 THEN <<DigitChars[n + 1]>>
    ELSE DecText(n \div 10) \o <<DigitChars[(n % 10) + 1]>>

\* {:02}: at least two digits, zero padded
Pad2(n) == IF n < 10 THEN <<"0">> \o DecText(n) ELSE DecText(n)

----------------------------------------------------------------------------
(* Values: enum AdifType *)

Str(s) == [kind |-> "Str", s |-> s]
Boolean(b) == [kind |-> "Boolean", b |-> b]
\* an f64 that is a short decimal: sign * (ip + 0.frac), frac without trailing
\* zeros (3.5 is Number(1, 3, <<"5">>), -12.0 is Number(-1, 12, <<>>))
Number(sign, ip, frac) == [kind |-> "Number", sign |-> sign, ip |-> ip, frac |-> frac]
\* chrono::NaiveDate
Date(y, m, d) == [kind |-> "Date", y |-> y, m |-> m, d |-> d]
\* chrono::NaiveTime; ns is the nanosecond part (1000000000 and more in a
\* leap second)
Time(h, mi, s, ns) == [kind |-> "Time", h |-> h, mi |-> mi, sec |-> s, ns |-> ns]

IsLeap(y) == (y % 4 = 0 /\ y % 100 # 0) \/ y % 400 = 0

DaysInMonth(y, m) ==
    IF m = 2 THEN (IF IsLeap(y) THEN 29 ELSE 28)
    ELSE IF m \in {4, 6, 9, 11} THEN 30 ELSE 31

----------------------------------------------------------------------------
(* The tokenizer: TOKEN_RE and parse_line_to_tokens *)

NoType == <<>>              \* Option<char>: None is <<>>, Some(c) is <<c>>
\* usize::MAX (64 bit), in decimal: more than the integers of TLC hold,
\* so a usize is kept as its decimal digits without leading zeros
UsizeMaxText == <<"1","8","4","4","6","7","4","4","0","7",
                  "3","7","0","9","5","5","1","6","1","5">>

RECURSIVE StripLeadingZeros(_)
StripLeadingZeros(ds) ==
    IF Len(ds) > 1 /\ ds[1] = "0"
    THEN StripLeadingZeros(Slice(ds, 2, Len(ds)))
    ELSE ds

\* a <= b for two digit texts of the same length
DigitsLE(a, b) ==
    \/ a = b
    \/ \E k \in 1..Len(a) :
          /\ \A j \in 1..(k - 1) : a[j] = b[j]
          /\ DigitVal(a[k]) < DigitVal(b[k])

FitsUsize(ds) ==
    LET n == StripLeadingZeros(ds)
    IN  \/ Len(n) < Len(UsizeMaxText)
        \/ Len(n) = Len(UsizeMaxText) /\ DigitsLE(n, UsizeMaxText)

\* the first index at or after i whose character is outside Class
\* (Len(s) + 1 when the run goes to the end): a greedy Class*
RunEnd(s, i, Class) ==
    SetMin({k \in i..(Len(s) + 1) : k = Len(s) + 1 \/ s[k] \notin Class})

\* the first index at or after i that holds "<": the greedy [^<]*
ValueEnd(s, i) ==
    SetMin({k \in i..(Len(s) + 1) : k = Len(s) + 1 \/ s[k] = "<"})

\* TOKEN_RE anchored at i:  <([A-Za-z_]+):(\d+)(?::([A-Za-z]))?>([^<]*)
\* The classes exclude the character that must follow them, so the greedy
\* runs are the only way to match.
MatchAt(s, i) ==
    LET ke == RunEnd(s, i + 1, KeyClass)          \* after the key
        de == RunEnd(s, ke + 1, DigitClass)       \* after the digits
        typed == /\ de + 2 <= Len(s)
                 /\ s[de] = ":"
                 /\ s[de + 1] \in Letters
                 /\ s[de + 2] = ">"
        gt == IF typed THEN de + 2 ELSE de        \* where ">" stands
        ve == ValueEnd(s, gt + 1)
        ok == /\ i <= Len(s) /\ s[i] = "<"
              /\ ke > i + 1
              /\ ke <= Len(s) /\ s[ke] = ":"
              /\ de > ke + 1
              /\ gt <= Len(s) /\ s[gt] = ">"
    IN  IF ok
        THEN [ok |-> TRUE,
              key |-> Slice(s, i + 1, ke - 1),
              len |-> Slice(s, ke + 1, de - 1),
              ty |-> IF typed THEN <<s[de + 1]>> ELSE NoType,
              value |-> Slice(s, gt + 1, ve - 1),
              end |-> ve]
        ELSE [ok |-> FALSE]

\* captures_iter: the leftmost match, then the leftmost match after it
RECURSIVE Captures(_, _)
Captures(s, i) ==
    IF i > Len(s) THEN <<>>
    ELSE LET m == MatchAt(s, i)
         IN  IF m.ok THEN <<m>> \o Captures(s, m.end) ELSE Captures(s, i + 1)

\* cap[2].parse::<usize>(): only ASCII digits, no overflow
LenParses(ds) ==
    /\ \A k \in 1..Len(ds) : ds[k] \in AsciiDigits
    /\ FitsUsize(ds)

Token(cap) ==
    [key |-> to_uppercase(cap.key),
     len |-> StripLeadingZeros(cap.len),
     ty |-> IF cap.ty = NoType THEN NoType ELSE <<UpperChar(cap.ty[1])>>,
     value |-> trim_end(cap.value)]

Panic(msg) == [panic |-> TRUE, msg |-> msg]

\* parse_line_to_tokens: the tokens, or the panic of .expect(..)
parse_line_to_tokens(line) ==
    LET caps == Captures(line, 1)
    IN  IF \E k \in 1..Len(caps) : ~LenParses(caps[k].len)
        THEN Panic("Length is not an integer")
        ELSE [panic |-> FALSE,
              tokens |-> [k \in 1..Len(caps) |-> Token(caps[k])]]

----------------------------------------------------------------------------
(* Decoding the raw values: lexical::parse and chrono's parse_from_str *)

None == [none |-> TRUE]

\* One numeric item of a chrono format (%Y, %m, %d, %H, %M, %S) without a
\* sign: leading white space is skipped, then 1..width ASCII digits are
\* taken.  The item's value and the rest of the text, or None.
NumericItem(s, width) ==
    LET t == trim_start(s)
        e == RunEnd(t, 1, AsciiDigits)
        n == IF e - 1 > width THEN width ELSE e - 1
    IN  IF n = 0 THEN None
        ELSE [none |-> FALSE,
              v |-> DecValue(Slice(t, 1, n)),
              rest |-> Slice(t, n + 1, Len(t))]

\* NaiveDate::parse_from_str(value, "%Y%m%d"): None is the Err that
\* .unwrap() panics on
parse_date(s) ==
    LET y == NumericItem(s, 4)
        m == NumericItem(y.rest, 2)
        d == NumericItem(m.rest, 2)
    IN  IF y.none THEN None
        ELSE IF m.none THEN None
        ELSE IF d.none THEN None
        ELSE IF d.rest # <<>> THEN None
        ELSE IF m.v < 1 \/ m.v > 12 THEN None
        ELSE IF d.v < 1 \/ d.v > DaysInMonth(y.v, m.v) THEN None
        ELSE [none |-> FALSE, v |-> Date(y.v, m.v, d.v)]

\* NaiveTime::parse_from_str(value, "%H%M%S"); second 60 is a leap second,
\* kept as second 59 with a nanosecond part of 1000000000
parse_time(s) ==
    LET h == NumericItem(s, 2)
        m == NumericItem(h.rest, 2)
        x == NumericItem(m.rest, 2)
    IN  IF h.none THEN None
        ELSE IF m.none THEN None
        ELSE IF x.none THEN None
        ELSE IF x.rest # <<>> THEN None
        ELSE IF h.v > 23 \/ m.v > 59 \/ x.v > 60 THEN None
        ELSE [none |-> FALSE,
              v |-> IF x.v = 60 THEN Time(h.v, m.v, 59, 1000000000)
                    ELSE Time(h.v, m.v, x.v, 0)]

RECURSIVE StripZeros(_)
StripZeros(ds) ==
    IF ds # <<>> /\ ds[Len(ds)] = "0"
    THEN StripZeros(Slice(ds, 1, Len(ds) - 1))
    ELSE ds

\* lexical::parse::<f64>(value), on the literals  [+-]? digits+ ( . digits+ )?
\* (exponents and the words NaN / inf are outside the texts of this model).
\* Everything else is the Err that .expect(..) panics on.
parse_number(s) ==
    LET signed == s # <<>> /\ s[1] \in {"+", "-"}
        b == IF signed THEN 2 ELSE 1
        ie == RunEnd(s, b, AsciiDigits)
        fe == RunEnd(s, ie + 1, AsciiDigits)
        sign == IF signed /\ s[1] = "-" THEN -1 ELSE 1
    IN  IF ie = b THEN None
        ELSE IF ie = Len(s) + 1
             THEN [none |-> FALSE,
                   v |-> Number(sign, DecValue(Slice(s, b, ie - 1)), <<>>)]
        ELSE IF s[ie] = "." /\ fe > ie + 1 /\ fe = Len(s) + 1
             THEN [none |-> FALSE,
                   v |-> Number(sign, DecValue(Slice(s, b, ie - 1)),
                                StripZeros(Slice(s, ie + 1, fe - 1)))]
        ELSE None

----------------------------------------------------------------------------
(* IndexMap<String, AdifType>: a sequence of <<key, value>> pairs *)

KeyIndex(map, k) ==
    LET hits == {i \in 1..Len(map) : map[i][1] = k}
    IN  IF hits = {} THEN 0 ELSE SetMin(hits)

\* IndexMap::insert: a new key goes to the end, a key already there keeps
\* its place and takes the new value
insert(map, k, v) ==
    LET i == KeyIndex(map, k)
    IN  IF i = 0 THEN Append(map, <<k, v>>)
        ELSE [map EXCEPT ![i] = <<k, v>>]

\* the value create_token_map stores for one token, or None where it panics
decode(token) ==
    IF token.ty = NoType THEN [none |-> FALSE, v |-> Str(token.value)]
    ELSE IF token.ty[1] = "B"
         THEN [none |-> FALSE, v |-> Boolean(to_uppercase(token.value) = <<"Y">>)]
    ELSE IF token.ty[1] = "N" THEN parse_number(token.value)
    ELSE IF token.ty[1] = "D" THEN parse_date(token.value)
    ELSE IF token.ty[1] = "T" THEN parse_time(token.value)
    ELSE [none |-> FALSE, v |-> Str(token.value)]

RECURSIVE FoldTokens(_, _, _)
FoldTokens(tokens, i, map) ==
    IF i > Len(tokens) THEN map
    ELSE FoldTokens(tokens, i + 1, insert(map, tokens[i].key, decode(tokens[i]).v))

\* create_token_map, given what parse_line_to_tokens returned: the map, or
\* the panic of the tokenizer or of the first token that does not decode
create_token_map(toks) ==
    IF toks.panic THEN toks
    ELSE IF \E i \in 1..Len(toks.tokens) : decode(toks.tokens[i]).none
         THEN Panic("value cannot be parsed")
    ELSE [panic |-> FALSE, map |-> FoldTokens(toks.tokens, 1, <<>>)]

----------------------------------------------------------------------------
(* parse_adif *)

EOH == <<"<", "E", "O", "H", ">">>
EOR == <<"<", "E", "O", "R", ">">>
eoh == <<"<", "e", "o", "h", ">">>
eor == <<"<", "e", "o", "r", ">">>

\* lines 75-77: the two replacements, then the split at every <EOH>
Normalize(data) == replace(replace(data, eoh, EOH), eor, EOR)

HeaderSplit(data) == split(Normalize(data), EOH)

\* lines 80-81: data.first() and data.last()
header_raw(data) == HeaderSplit(data)[1]
body_raw(data) == HeaderSplit(data)[Len(HeaderSplit(data))]

\* a split of the body that drops the empty segment after the last <EOR>
record_lines_drops_empty(data) ==
    SelectSeq(split(body_raw(data), EOR), LAMBDA seg : seg # <<>>)

\* line 91: body_raw.split("<EOR>")
record_lines(data) == split(body_raw(data), EOR)

\* parse_adif: the AdifFile, or the panic that ends the call
parse_adif(data) ==
    LET header == create_token_map(parse_line_to_tokens(header_raw(data)))
        lines == record_lines(data)
        recs == [i \in 1..Len(lines) |->
                    create_token_map(parse_line_to_tokens(lines[i]))]
    IN  IF header.panic THEN header
        ELSE IF \E i \in 1..Len(recs) : recs[i].panic
             THEN recs[SetMin({i \in 1..Len(recs) : recs[i].panic})]
        ELSE [panic |-> FALSE,
              header |-> header.map,
              body |-> [i \in 1..Len(recs) |-> recs[i].map]]

----------------------------------------------------------------------------
(* The encoder: AdifType::serialize *)

Ok(text) == [ok |-> TRUE, text |-> text]
\* SerializeError; the offender is kept as the offending value itself
Err(message, offender) == [ok |-> FALSE, message |-> message, offender |-> offender]

get_data_type_indicator(v) ==
    IF v.kind = "Str" THEN NoType
    ELSE IF v.kind = "Boolean" THEN <<"B">>
    ELSE IF v.kind = "Number" THEN <<"N">>
    ELSE IF v.kind = "Date" THEN <<"D">>
    ELSE <<"T">>

\* str::contains(c)
contains(s, c) == \E i \in 1..Len(s) : s[i] = c

\* f64::to_string on the short decimals of the model: no trailing ".0"
NumberText(v) ==
    (IF v.sign < 0 THEN <<"-">> ELSE <<>>)
    \o DecText(v.ip)
    \o (IF v.frac = <<>> THEN <<>> ELSE <<".">> \o v.frac)

\* the arms of the match (lines 62-103): Ok(value text) or the early Err
value_text(v) ==
    IF v.kind = "Str"
    THEN IF contains(v.s, "\n")
         THEN Err("String cannot contain linebreaks", v)
         ELSE IF ~is_ascii(v.s)
         THEN Err("String must be ASCII", v)
         ELSE Ok(v.s)
    ELSE IF v.kind = "Boolean"
    THEN Ok(IF v.b THEN <<"Y">> ELSE <<"N">>)
    ELSE IF v.kind = "Number"
    THEN Ok(NumberText(v))
    ELSE IF v.kind = "Date"
    THEN IF v.y < 1930
         THEN Err("Date must be >= 1930", v)
         ELSE Ok(DecText(v.y) \o Pad2(v.m) \o Pad2(v.d))
    ELSE Ok(Pad2(v.h) \o Pad2(v.mi) \o Pad2(v.sec))

\* a normalize_key that forgets .replace(' ', "_")
normalize_key_keeps_spaces(k) == to_uppercase(k)

\* key_name.to_uppercase().replace(' ', "_")
normalize_key(k) ==
    LET u == to_uppercase(k)
    IN  [i \in 1..Len(u) |-> IF u[i] = " " THEN "_" ELSE u[i]]

\* AdifType::serialize(&self, key_name)
serialize(v, key_name) ==
    LET r == value_text(v)
        ind == get_data_type_indicator(v)
    IN  IF ~r.ok THEN r
        ELSE Ok(<<"<">> \o normalize_key(key_name) \o <<":">>
                \o DecText(ByteLen(r.text))
                \o (IF ind = NoType THEN <<>> ELSE <<":">> \o ind)
                \o <<">">> \o r.text)

----------------------------------------------------------------------------
(* The containers: AdifRecord, AdifHeader, AdifFile *)

\* Vec<String>::join(sep)
RECURSIVE join(_, _)
join(parts, sep) ==
    IF parts = <<>> THEN <<>>
    ELSE IF Len(parts) = 1 THEN parts[1]
    ELSE parts[1] \o sep \o join(Tail(parts), sep)

\* .map(|(key, value)| value.serialize(key)).collect::<Result<Vec<_>, _>>():
\* the tags in map order, or the first Err
collect_tags(map) ==
    LET rs == [i \in 1..Len(map) |-> serialize(map[i][2], map[i][1])]
        bad == {i \in 1..Len(map) : ~rs[i].ok}
    IN  IF bad # {} THEN rs[SetMin(bad)]
        ELSE [ok |-> TRUE, tags |-> [i \in 1..Len(map) |-> rs[i].text]]

\* a record serializer that joins the tags the way the header serializer does
record_serialize_joins_lines(map) ==
    LET c == collect_tags(map)
    IN  IF ~c.ok THEN c ELSE Ok(join(c.tags, <<"\n">>) \o eor)

\* AdifRecord::serialize
record_serialize(map) ==
    LET c == collect_tags(map)
    IN  IF ~c.ok THEN c ELSE Ok(join(c.tags, <<>>) \o eor)

\* the instant the model's clock starts at
ClockBase == [y |-> 2026, mo |-> 11, d |-> 2, h |-> 14, mi |-> 59, s |-> 58]

\* chrono::Utc::now().format("%Y-%m-%d %H:%M:%S"), t seconds after ClockBase
\* (within the hour after it)
ClockText(t) ==
    LET secs == ClockBase.mi * 60 + ClockBase.s + t
        h == ClockBase.h + (secs \div 3600)
    IN  DecText(ClockBase.y) \o <<"-">> \o Pad2(ClockBase.mo) \o <<"-">>
        \o Pad2(ClockBase.d) \o <<" ">> \o Pad2(h) \o <<":">>
        \o Pad2((secs % 3600) \div 60) \o <<":">> \o Pad2(secs % 60)

Banner(t) ==
    <<"G","e","n","e","r","a","t","e","d"," ">> \o ClockText(t)
    \o <<" ","(","U","T","C",")","\n","\n">>

\* AdifHeader::serialize, run when the system clock reads t
header_serialize(map, t) ==
    LET c == collect_tags(map)
    IN  IF ~c.ok THEN c
        ELSE Ok(Banner(t) \o join(c.tags, <<"\n">>) \o <<"\n">> \o EOH)

\* AdifFile::serialize, run when the system clock reads t
file_serialize(f, t) ==
    LET h == header_serialize(f.header, t)
        rs == [i \in 1..Len(f.body) |-> record_serialize(f.body[i])]
        bad == {i \in 1..Len(rs) : ~rs[i].ok}
    IN  IF ~h.ok THEN h
        ELSE IF bad # {} THEN rs[SetMin(bad)]
        ELSE Ok(h.text \o <<"\n">>
                \o join([i \in 1..Len(rs) |-> rs[i].text], <<"\n">>))

----------------------------------------------------------------------------
(* The inputs the model draws *)

MaxStrLen == 3      \* the longest Str value handed to AdifType::serialize
MaxPieces == 3      \* the most pieces of text written to doc
MaxFields == 2      \* the most inserts into the container
MaxTicks == 2       \* the most seconds the clock advances

SeqsUpTo(A, n) == UNION {[1..k -> A] : k \in 0..n}

NotRun == [run |-> FALSE]

\* the characters of the Str values: a letter, the letter of Boolean(true),
\* a space, the two line breaks, a tag start and a non-ASCII character
StrAlphabet == {"a", "Y", " ", "\n", "\r", "<", "U+00E9"}

StrValues == {Str(s) : s \in SeqsUpTo(StrAlphabet, MaxStrLen)}

BooleanValues == {Boolean(TRUE), Boolean(FALSE)}

NumberValues ==
    {Number(1, 3, <<"5">>), Number(-1, 3, <<"5">>), Number(-1, 12, <<>>),
     Number(1, 15, <<"5">>), Number(1, 0, <<>>), Number(1, 401, <<>>),
     Number(1, 0, <<"2", "5">>)}

DateValues ==
    {Date(y, md[1], md[2]) :
        y \in {1910, 1929, 1930, 2020, 9999, 10000},
        md \in {<<1, 1>>, <<2, 2>>, <<2, 24>>, <<12, 31>>}}

TimeValues ==
    {Time(23, 2, 5, 0), Time(0, 0, 0, 0), Time(9, 30, 7, 500000000),
     Time(23, 59, 59, 1000000000)}

Values == StrValues \cup BooleanValues \cup NumberValues
          \cup DateValues \cup TimeValues

KeyNames ==
    {<<"t","e","s","t">>, <<"a"," ","n","u","m","b","e","r">>,
     <<"C","a","l","l">>, <<"A","_","B">>, <<"a"," ","b"," ","c">>}

----------------------------------------------------------------------------
(* AdifType::serialize applied to one value and key *)

InitValue ==
    /\ doc = <<>> /\ fed = 0 /\ file = NotRun /\ lexed = NotRun
    /\ key \in KeyNames
    /\ value \in Values
    /\ rec = <<>> /\ out = NotRun /\ now = 0 /\ hser = <<>>

SerializeValue ==
    /\ out = NotRun
    /\ out' = [run |-> TRUE, op |-> "value", res |-> serialize(value, key)]
    /\ UNCHANGED <<doc, fed, file, key, value, rec, now, hser, lexed>>

NextValue == SerializeValue

SpecValue == InitValue /\ [][NextValue]_vars

----------------------------------------------------------------------------
(* Claims about AdifType::serialize, under SpecValue *)

ValueDone == out.run /\ out.op = "value"

TypeSuffix(kind) ==
    IF kind = "Boolean" THEN <<":", "B">>
    ELSE IF kind = "Number" THEN <<":", "N">>
    ELSE IF kind = "Date" THEN <<":", "D">>
    ELSE IF kind = "Time" THEN <<":", "T">>
    ELSE <<>>

FirstGt(tag) == SetMin({i \in 1..Len(tag) : tag[i] = ">"})

\* C6: every tag AdifType::serialize returns is "<" + normalize(key) + ":" + L
\* + T + ">" + V, where V is the encoded value text of the value, L the
\* decimal byte length of V, T ":" and the type letter for a value that is
\* not a Str and empty for a Str, and normalize(key) the key with every
\* letter uppercased and every space turned into an underscore.
C6_TagAssembly ==
    (ValueDone /\ out.res.ok) =>
        LET tag == out.res.text
            gt == FirstGt(tag)
            V == Slice(tag, gt + 1, Len(tag))
            K == [i \in 1..Len(key) |->
                    IF key[i] = " " THEN "_" ELSE UpperChar(key[i])]
        IN  /\ V = value_text(value).text
            /\ Slice(tag, 1, gt) =
                 <<"<">> \o K \o <<":">> \o DecText(ByteLen(V))
                 \o TypeSuffix(value.kind) \o <<">">>

\* the key "a number" and Number(3.5) have been encoded as <A_NUMBER:3:N>3.5
C6_Witness ==
    /\ ValueDone
    /\ key = <<"a"," ","n","u","m","b","e","r">>
    /\ value = Number(1, 3, <<"5">>)
    /\ out.res = Ok(<<"<","A","_","N","U","M","B","E","R",":","3",":","N",">",
                      "3",".","5">>)

LineBreaks == {"\n", "\r"}
HasLineBreak(s) == \E i \in 1..Len(s) : s[i] \in LineBreaks
HasNonAscii(s) == \E i \in 1..Len(s) : s[i] \in NonAsciiChars
IsLinebreakError(r) == ~r.ok /\ r.message = "String cannot contain linebreaks"
IsNonAsciiError(r) == ~r.ok /\ r.message = "String must be ASCII"

\* C7: encoding Str(s) returns the NonAscii error if s has a non-ASCII
\* byte, the ContainsLinebreak error if s has a line feed or a carriage
\* return (either error when it has both), and otherwise the tag whose value
\* text is s itself; so an encoded Str has no non-ASCII byte and no line break.
C7_StrEncode ==
    (ValueDone /\ value.kind = "Str") =>
        LET s == value.s
            r == out.res
        IN  /\ (HasNonAscii(s) /\ ~HasLineBreak(s)) => IsNonAsciiError(r)
            /\ (HasLineBreak(s) /\ ~HasNonAscii(s)) => IsLinebreakError(r)
            /\ (HasLineBreak(s) /\ HasNonAscii(s)) =>
                  (IsNonAsciiError(r) \/ IsLinebreakError(r))
            /\ (~HasLineBreak(s) /\ ~HasNonAscii(s)) =>
                  (r.ok /\ Slice(r.text, FirstGt(r.text) + 1, Len(r.text)) = s)
            /\ r.ok => (~HasLineBreak(s) /\ ~HasNonAscii(s))

\* C8: encoding Date(d) returns the DateTooEarly error iff the year of d is
\* below 1930, and for every year from 1930 on the value text is exactly 8
\* digits: 4 of the year, 2 of the month, 2 of the day.
C8_DateEncode ==
    (ValueDone /\ value.kind = "Date") =>
        LET r == out.res
            V == Slice(r.text, FirstGt(r.text) + 1, Len(r.text))
        IN  /\ ~r.ok <=> value.y < 1930
            /\ ~r.ok => r.message = "Date must be >= 1930"
            /\ r.ok =>
                 /\ Len(V) = 8
                 /\ \A i \in 1..Len(V) : V[i] \in AsciiDigits
                 /\ DecValue(Slice(V, 1, 4)) = value.y
                 /\ DecValue(Slice(V, 5, 6)) = value.m
                 /\ DecValue(Slice(V, 7, 8)) = value.d

----------------------------------------------------------------------------
(* parse_adif applied to a text the caller writes piece by piece *)

\* the text of an untyped tag with key k and value v:  <k:len>v
TagText(k, v) == <<"<">> \o k \o <<":">> \o DecText(Len(v)) \o <<">">> \o v

\* untyped tags, as <<key, value>>; the first and the third have the same key
\* in different letter case, and the value of the third ends in a space
UntypedTags ==
    {<<<<"C","A","L","L">>, <<"V","A">>>>,
     <<<<"B","a","n","d">>, <<"4","m">>>>,
     <<<<"c","a","l","l">>, <<"b"," ">>>>}

TypedTagTexts ==
    {<<"<","N",":","1",":","N",">","7">>,                       \* a number
     <<"<","N",":","1",":","N",">","x">>,                       \* not a number
     <<"<","D",":","8",":","D",">","2","0","2","0","0","2","2","4",
       "<","T",":","6",":","T",">","2","3","0","2","0","5">>,   \* a date, a time
     <<"<","D",":","8",":","d",">","2","0","2","0","1","3","0","1">>,  \* month 13
     <<"<","T",":","4",":","T",">","2","3","0","2">>,           \* HHMM only
     <<"<","B",":","1",":","b",">","y",
       "<","X",":","1",":","Z",">","q">>,   \* a boolean, a type AdifType lacks
     <<"<","K",":","U+0663",">","x">>}      \* a length \d takes, usize does not

TerminatorTexts ==
    {eoh, EOH, <<"<","E","o","h",">">>, eor, EOR, <<"<","e","O","r",">">>}

Pieces ==
    {TagText(kv[1], kv[2]) : kv \in UntypedTags} \cup TypedTagTexts
    \cup TerminatorTexts \cup {<<" ", "\n">>}

InitParse ==
    /\ doc = <<>> /\ fed = 0 /\ file = NotRun /\ lexed = NotRun
    /\ key = <<>> /\ value = NotRun
    /\ rec = <<>> /\ out = NotRun /\ now = 0 /\ hser = <<>>

\* the caller (file I/O, outside the crate) appends a piece to the text
Feed(p) ==
    /\ ~file.run /\ ~lexed.run
    /\ fed < MaxPieces
    /\ doc' = doc \o p
    /\ fed' = fed + 1
    /\ UNCHANGED <<file, key, value, rec, out, now, hser, lexed>>

ParseDoc ==
    /\ ~file.run
    /\ file' = [run |-> TRUE, res |-> parse_adif(doc)]
    /\ UNCHANGED <<doc, fed, key, value, rec, out, now, hser, lexed>>

NextParse == (\E p \in Pieces : Feed(p)) \/ ParseDoc

SpecParse == InitParse /\ [][NextParse]_vars

----------------------------------------------------------------------------
(* Claims about parse_adif, under SpecParse *)

Parsed == file.run
ParsedFile == file.run /\ ~file.res.panic

\* the sequences of untyped tags whose keys differ, letter case aside
DistinctTagSeqs ==
    {ts \in SeqsUpTo(UntypedTags, MaxPieces) :
        \A i, j \in 1..Len(ts) :
            i # j => to_uppercase(ts[i][1]) # to_uppercase(ts[j][1])}

RECURSIVE TagsText(_)
TagsText(ts) ==
    IF ts = <<>> THEN <<>> ELSE TagText(ts[1][1], ts[1][2]) \o TagsText(Tail(ts))

\* the fields the tags ts spell: the uppercased key and, as a Str, the value
\* without the white space it ends in
FieldsOf(ts) ==
    [i \in 1..Len(ts) |-> <<to_uppercase(ts[i][1]), Str(trim_end(ts[i][2]))>>]

EndsWith(s, suffix) ==
    Len(s) >= Len(suffix) /\ StartsAt(s, Len(s) - Len(suffix) + 1, suffix)

\* the original C2: a text of untyped tags and one record terminator, with no
\* header terminator, parses to a File with exactly one record, which holds
\* the fields of the tags as Str values in the order of the tags.
C2_Original ==
    Parsed =>
        \A ts \in DistinctTagSeqs :
            (ts # <<>> /\ doc = TagsText(ts) \o eor) =>
                /\ ~file.res.panic
                /\ file.res.body = <<FieldsOf(ts)>>

\* C2, amended: a text of untyped tags with keys that differ (letter case
\* aside) followed by one record terminator written <eor> or <EOR>, with no
\* header terminator, parses to a File with exactly two records: the first
\* holds the fields of the tags as Str values (trailing white space trimmed)
\* in the order of the tags, the second, read from the empty text after the
\* terminator, has no field.
C2_OneRecordThenEmpty ==
    (Parsed /\ (EndsWith(doc, eor) \/ EndsWith(doc, EOR))) =>
        \A ts \in DistinctTagSeqs :
            (ts # <<>> /\ doc \in {TagsText(ts) \o eor, TagsText(ts) \o EOR}) =>
                /\ ~file.res.panic
                /\ file.res.body = <<FieldsOf(ts), <<>>>>

\* <CALL:2>VA<Band:2>4m<eor> has been parsed
C2_Witness ==
    /\ ParsedFile
    /\ doc = TagText(<<"C","A","L","L">>, <<"V","A">>)
             \o TagText(<<"B","a","n","d">>, <<"4","m">>) \o eor
    /\ Len(file.res.body) = 2
    /\ file.res.body[1] = << <<<<"C","A","L","L">>, Str(<<"V","A">>)>>,
                             <<<<"B","A","N","D">>, Str(<<"4","m">>)>> >>

\* C3: parse_adif never ends in a panic: a token of type N, D or T whose raw
\* value is malformed is reported to the caller as an error value.
C3_NoPanic == Parsed => ~file.res.panic

\* C4: a text with a header terminator (<eoh> or <EOH>) is split at the first one: the header
\* is decoded from the text before it, the records from all of the text after
\* it, and the two segments do not overlap.
C4_SplitAtFirst ==
    (Parsed /\ FindFrom(Normalize(doc), 1, EOH) # 0) =>
        LET s == Normalize(doc)
            k == FindFrom(s, 1, EOH)
        IN  /\ header_raw(doc) = Slice(s, 1, k - 1)
            /\ body_raw(doc) = Slice(s, k + Len(EOH), Len(s))
            /\ ParsedFile =>
                 /\ file.res.header
                      = create_token_map(parse_line_to_tokens(Slice(s, 1, k - 1))).map
                 /\ Len(file.res.body)
                      = Len(split(Slice(s, k + Len(EOH), Len(s)), EOR))

\* a terminator in any letter case stands at i
TerminatorAt(s, i) ==
    /\ i + Len(EOH) - 1 <= Len(s)
    /\ to_uppercase(Slice(s, i, i + Len(EOH) - 1)) \in {EOH, EOR}

\* the text with every terminator rewritten in upper case
RECURSIVE Canonical(_, _)
Canonical(s, i) ==
    IF i > Len(s) THEN <<>>
    ELSE IF TerminatorAt(s, i)
         THEN to_uppercase(Slice(s, i, i + Len(EOH) - 1))
              \o Canonical(s, i + Len(EOH))
         ELSE <<s[i]>> \o Canonical(s, i + 1)

\* C5: the terminators are read in any letter case: a text parses to what the
\* same text with its terminators in upper case parses to.
C5_TerminatorCase == Parsed => file.res = parse_adif(Canonical(doc, 1))

----------------------------------------------------------------------------
(* A container the caller builds, serializes and parses back *)

ContainerKeys ==
    {<<"C","A","L","L">>, <<"c","a","l","l">>, <<"a"," ","b">>}

ContainerValues ==
    {Str(<<"a">>), Str(<<"a", " ">>), Str(<<"<">>), Str(<<"\n">>),
     Boolean(TRUE), Number(1, 3, <<"5">>),
     Date(2020, 2, 24), Date(10000, 1, 1), Time(23, 2, 5, 0)}

InitContainer ==
    /\ doc = <<>> /\ fed = 0 /\ file = NotRun /\ lexed = NotRun
    /\ key = <<>> /\ value = NotRun
    /\ rec = <<>>                   \* IndexMap::new().into()
    /\ out = NotRun /\ now = 0 /\ hser = <<>>

\* DerefMut: the caller calls IndexMap::insert on the container
Insert(k, v) ==
    /\ ~out.run
    /\ Len(insert(rec, k, v)) <= MaxFields
    /\ rec' = insert(rec, k, v)
    /\ UNCHANGED <<doc, fed, file, key, value, out, now, hser, lexed>>

SerializeRecord ==
    /\ ~out.run
    /\ out' = [run |-> TRUE, op |-> "record", res |-> record_serialize(rec)]
    /\ UNCHANGED <<doc, fed, file, key, value, rec, now, hser, lexed>>

\* AdifHeader::serialize reads the system clock; hser keeps the header, the
\* clock reading and the result of the first two calls
SerializeHeader ==
    /\ Len(hser) < 2
    /\ ~file.run
    /\ out' = [run |-> TRUE, op |-> "header", res |-> header_serialize(rec, now)]
    /\ hser' = Append(hser, [header |-> rec, res |-> header_serialize(rec, now)])
    /\ UNCHANGED <<doc, fed, file, key, value, rec, now, lexed>>

\* the text a serialize call returned is handed to parse_adif
ParseOut ==
    /\ out.run /\ out.res.ok
    /\ ~file.run
    /\ doc' = out.res.text
    /\ file' = [run |-> TRUE, res |-> parse_adif(out.res.text)]
    /\ UNCHANGED <<fed, key, value, rec, out, now, hser, lexed>>

NextContainer ==
    \/ \E k \in ContainerKeys, v \in ContainerValues : Insert(k, v)
    \/ SerializeRecord
    \/ SerializeHeader
    \/ ParseOut

SpecContainer == InitContainer /\ [][NextContainer]_vars

----------------------------------------------------------------------------
(* A header serialized while the system clock runs *)

ClockHeaders ==
    {m \in SeqsUpTo(ContainerKeys \X ContainerValues, MaxFields) :
        \A i, j \in 1..Len(m) : i # j => m[i][1] # m[j][1]}

InitClock ==
    /\ doc = <<>> /\ fed = 0 /\ file = NotRun /\ lexed = NotRun
    /\ key = <<>> /\ value = NotRun
    /\ rec \in ClockHeaders
    /\ out = NotRun /\ now = 0 /\ hser = <<>>

\* a second passes on the system clock
Tick ==
    /\ now < MaxTicks
    /\ now' = now + 1
    /\ UNCHANGED <<doc, fed, file, key, value, rec, out, hser, lexed>>

NextClock == Tick \/ SerializeHeader

SpecClock == InitClock /\ [][NextClock]_vars

----------------------------------------------------------------------------
(* Claims about the containers, under SpecContainer and SpecClock *)

\* the values C1 is about: ASCII Str without a line break, booleans, dates
\* from 1930 on, times
InRoundTripClass(map) ==
    \A i \in 1..Len(map) :
        LET v == map[i][2]
        IN  \/ v.kind = "Str" /\ ~HasNonAscii(v.s) /\ ~HasLineBreak(v.s)
            \/ v.kind = "Boolean"
            \/ v.kind = "Date" /\ v.y >= 1930
            \/ v.kind = "Time"

\* the container with its keys as serialize writes them
WithNormalKeys(map) == [i \in 1..Len(map) |-> <<normalize_key(map[i][1]), map[i][2]>>]

\* C1: the text a Record or Header of such values serializes to parses back
\* to it: the record of the File (for a Header, the header of the File) has
\* the keys (as serialize writes them), values and field order of the original.
C1_RoundTrip ==
    (file.run /\ out.run /\ InRoundTripClass(rec)) =>
        /\ ~file.res.panic
        /\ out.op = "record" => file.res.body[1] = WithNormalKeys(rec)
        /\ out.op = "header" => file.res.header = WithNormalKeys(rec)

\* C9: two calls of AdifHeader::serialize on equal headers return the same
\* text (serialize takes no clock from its caller, so the clock supplied is
\* the same in every call).
C9_Deterministic ==
    (Len(hser) = 2 /\ hser[1].header = hser[2].header) => hser[1].res = hser[2].res

\* C10: the keys of a container differ pairwise, letter case aside, so no two
\* tags of its serialization have the same normalized key.
C10_KeysDistinct ==
    \A i, j \in 1..Len(rec) :
        i # j => /\ to_uppercase(rec[i][1]) # to_uppercase(rec[j][1])
                 /\ normalize_key(rec[i][1]) # normalize_key(rec[j][1])

----------------------------------------------------------------------------
(* Claims about AdifRecord::serialize, under SpecContainer *)

RecordDone == out.run /\ out.op = "record"

\* the tag of the i-th field of the container
FieldTag(map, i) == serialize(map[i][2], map[i][1])

\* where the i-th tag starts in a text that holds the tags back to back
RECURSIVE TagStart(_, _)
TagStart(map, i) ==
    IF i = 1 THEN 1 ELSE TagStart(map, i - 1) + Len(FieldTag(map, i - 1).text)

\* C11: when every field of a Record encodes, AdifRecord::serialize returns
\* the tags of the fields back to back in container order, the i-th tag of
\* the text being the tag of the i-th field, and then the lowercase <eor>.
C11_RecordText ==
    (RecordDone /\ \A i \in 1..Len(rec) : FieldTag(rec, i).ok) =>
        LET text == out.res.text
            end == TagStart(rec, Len(rec) + 1)
        IN  /\ out.res.ok
            /\ \A i \in 1..Len(rec) :
                  StartsAt(text, TagStart(rec, i), FieldTag(rec, i).text)
            /\ Len(text) = end + 4
            /\ Slice(text, end, end + 4) = <<"<", "e", "o", "r", ">">>

\* the record holding "a b" = 3.5 and then CALL = "a" has been serialized
C11_Witness ==
    /\ RecordDone
    /\ rec = << <<<<"a"," ","b">>, Number(1, 3, <<"5">>)>>,
                <<<<"C","A","L","L">>, Str(<<"a">>)>> >>
    /\ out.res = Ok(<<"<","A","_","B",":","3",":","N",">","3",".","5",
                      "<","C","A","L","L",":","1",">","a",
                      "<","e","o","r",">">>)

----------------------------------------------------------------------------
(* parse_line_to_tokens applied to a text the caller writes piece by piece *)

\* two tags (the second typed, in lower case), white space, a line break,
\* plain text, a record terminator, a stray tag start, and a tag whose
\* length \d takes and usize does not
LinePieces ==
    {TagText(<<"C","A","L","L">>, <<"V","A">>),
     <<"<","b","_","x",":","2",":","n",">","4","0">>,
     <<" ">>, <<"\n">>, <<"y">>, eor, <<"<">>,
     <<"<","K",":","U+0663",">","x">>}

Tokenize ==
    /\ ~lexed.run
    /\ lexed' = [run |-> TRUE, res |-> parse_line_to_tokens(doc)]
    /\ UNCHANGED <<doc, fed, file, key, value, rec, out, now, hser>>

NextTokens == (\E p \in LinePieces : Feed(p)) \/ Tokenize

SpecTokens == InitParse /\ [][NextTokens]_vars

----------------------------------------------------------------------------
(* Claims about the tokenizer, under SpecTokens *)

Lexed == lexed.run /\ ~lexed.res.panic

\* where the tags of the text start, left to right
TagStarts(s) == {i \in 1..Len(s) : MatchAt(s, i).ok}

\* the k-th smallest element of a set of numbers
Nth(S, k) == CHOOSE x \in S : Cardinality({y \in S : y < x}) = k - 1

\* the text after the ">" of the tag that starts at i, up to the next "<", the
\* next line break or the end of the text, without the white space it ends in
ValueOnLine(s, i) ==
    LET m == MatchAt(s, i)
        start == m.end - Len(m.value)
        stop == SetMin({k \in start..(Len(s) + 1) :
                          k = Len(s) + 1 \/ s[k] \in {"<", "\n", "\r"}})
    IN  trim_end(Slice(s, start, stop - 1))

\* C12: the tokenizer emits one token per tag, left to right; the value of a
\* token is the text after the ">" of its tag up to the next "<" or the end
\* of the line, trailing white space trimmed, so it holds no "<", holds no
\* line break and does not end in white space.
C12_TokenValues ==
    Lexed =>
        LET ts == lexed.res.tokens
            starts == TagStarts(doc)
        IN  /\ Len(ts) = Cardinality(starts)
            /\ \A k \in 1..Len(ts) :
                  /\ ts[k].key = to_uppercase(MatchAt(doc, Nth(starts, k)).key)
                  /\ ts[k].value = ValueOnLine(doc, Nth(starts, k))
                  /\ ~contains(ts[k].value, "<")
                  /\ ~HasLineBreak(ts[k].value)
                  /\ ts[k].value = trim_end(ts[k].value)

====
